---- MODULE Spec2Model ----
(***************************************************************************)
(* Model of the passkey relying-party backend (backend/server.js): the     *)
(* in-memory tables db.users, db.regOptions, db.authOptions and the four   *)
(* ceremony handlers POST /register/options, /register/verify,             *)
(* /login/options and /login/verify.                                       *)
(*                                                                         *)
(* Every handler is an async function.  It runs synchronously up to its    *)
(* first `await` (or to an early `return`), and again from the resolution  *)
(* of the awaited promise to its end (the `finally` block included).  Each *)
(* of these two runs is one atomic action; between them any other handler  *)
(* run may be scheduled by the event loop.                                 *)
(*                                                                         *)
(* @simplewebauthn/server is an external library.  Its four functions are  *)
(* modelled by what the handlers hand to them and take from them: the      *)
(* option generators return a fresh challenge, the verifiers compare the   *)
(* client response with the expected challenge, origin(s), RP ID and, for  *)
(* an assertion, the credential counter passed in.  A response that fails  *)
(* a check makes the verifier return verified:false or throw; which of the *)
(* two is left open.                                                       *)
(*                                                                         *)
(* Each run of a handler is first written as an operator that computes,    *)
(* from the current tables and the run's inputs, its outcome: the response *)
(* it sends, the tables it leaves and the frame it suspends in.  The       *)
(* actions apply these outcomes.                                           *)
(***************************************************************************)
EXTENDS Integers, Sequences, FiniteSets, TLC

\* ----------------------------------------------------------------- bounds
Usernames == {"alice", "bob"}
CredIds == {"k1", "k2"}
Procs == {"p1", "p2"}          \* request handler invocations that may be in flight together
MaxChallenges == 3             \* challenges generated in one behaviour
MaxCounter == 2                \* largest signature counter an authenticator reports
MaxPasskeys == 2               \* passkeys stored in db.users, all users together

\* ----------------------------------------------------------------- config
rpID == "localhost"
ORIGINS == {"http://localhost:3000", "http://localhost:5173"}

\* What a client may claim as origin / RP ID in a response.
ClientOrigins == {"http://localhost:3000", "http://evil.example"}
ClientRpIDs == {"localhost", "evil.example"}

\* ------------------------------------------------------------ value shapes
NoUsername == ""               \* req.body without a username
NoOptions == [challenge |-> 0, credentials |-> << >>]

\* The client's attestation / assertion as the verifier reads it.  At most one
\* of origin, RP ID and signature is wrong in one response.
ResponseShapes ==
  { r \in [challenge : 1..MaxChallenges, origin : ClientOrigins, rpID : ClientRpIDs,
           signed : BOOLEAN, id : CredIds, counter : 0..MaxCounter] :
      \/ r.origin \in ORIGINS /\ r.rpID = rpID
      \/ r.origin \in ORIGINS /\ r.signed
      \/ r.rpID = rpID /\ r.signed }

VARIABLES
  users,        \* db.users: Map username -> { username, passkeys }
  regOptions,   \* db.regOptions: Map username -> last registration options
  authOptions,  \* db.authOptions: Map username -> last authentication options
  req,          \* per handler invocation: where it is suspended and its locals
  issued        \* history: issued[c] describes the c-th challenge generated

vars == <<users, regOptions, authOptions, req, issued>>

\* ------------------------------------------------------------- Map helpers
EmptyMap == [k \in {} |-> k]
MapHas(m, k) == k \in DOMAIN m
MapSet(m, k, v) == [x \in (DOMAIN m) \cup {k} |-> IF x = k THEN v ELSE m[x]]
MapDelete(m, k) == [x \in (DOMAIN m) \ {k} |-> m[x]]

\* --------------------------------------------------------------- responses
\* res.status(..).json(..); route "none" stands for no response sent yet.
NoResp ==
  [route |-> "none", username |-> NoUsername, status |-> 0, verified |-> "none",
   error |-> "", options |-> NoOptions]

Error(route, username, message) ==
  [NoResp EXCEPT !.route = route, !.username = username, !.status = 400,
                 !.error = message]

OptionsBody(route, username, options) ==
  [NoResp EXCEPT !.route = route, !.username = username, !.status = 200,
                 !.options = options]

VerifiedBody(route, username, verified) ==
  [NoResp EXCEPT !.route = route, !.username = username, !.status = 200,
                 !.verified = IF verified THEN "true" ELSE "false"]

\* The locals of a handler invocation; pc names the route whose await it is
\* suspended at.
Idle ==
  [pc |-> "idle", username |-> NoUsername, opts |-> NoOptions, credentials |-> << >>,
   passkey |-> 0, counter |-> 0]

\* What one run of a handler leaves: the response sent, the three tables and the
\* frame of the invocation (Idle when the handler has returned).
Outcome(resp, newUsers, newRegOptions, newAuthOptions, frame) ==
  [resp |-> resp, users |-> newUsers, regOptions |-> newRegOptions,
   authOptions |-> newAuthOptions, frame |-> frame]

Returns(resp) == Outcome(resp, users, regOptions, authOptions, Idle)

Awaiting(kind) == {p \in Procs : req[p].pc = kind}

Init ==
  /\ users = EmptyMap
  /\ regOptions = EmptyMap
  /\ authOptions = EmptyMap
  /\ req = [p \in Procs |-> Idle]
  /\ issued = << >>

\* ------------------------------------------------------ history of challenges
\* Challenge c is the c-th one generated; issued[c] records for whom and for which
\* ceremony it was generated, how many verify calls found it pending (taken) and
\* how many handed it to a verifier as expectedChallenge (uses).
IssuedEntry(username, kind) ==
  [username |-> username, kind |-> kind, taken |-> 0, uses |-> 0]

RecordTake(challenge) == [issued EXCEPT ![challenge].taken = @ + 1]

RecordUse(challenge) ==
  [issued EXCEPT ![challenge].taken = @ + 1, ![challenge].uses = @ + 1]

\* --------------------------------------------------------------------- Util
\* The `if (!user)` left out: a fresh user is stored on every call.
getOrCreateUser_Reset(username) ==
  MapSet(users, username, [username |-> username, passkeys |-> << >>])

getOrCreateUser(username) ==
  IF MapHas(users, username)
  THEN users
  ELSE MapSet(users, username, [username |-> username, passkeys |-> << >>])

\* user.passkeys.map(pk => ({ id: pk.id, transports: pk.transports }))
excludeCredentials(user) ==
  [i \in 1..Len(user.passkeys) |->
     [id |-> user.passkeys[i].id, transports |-> user.passkeys[i].transports]]

\* Only the first passkey is listed.
allowCredentials_First(user) ==
  [i \in 1..(IF Len(user.passkeys) = 0 THEN 0 ELSE 1) |->
     [id |-> user.passkeys[i].id, transports |-> user.passkeys[i].transports]]

allowCredentials(user) ==
  [i \in 1..Len(user.passkeys) |->
     [id |-> user.passkeys[i].id, transports |-> user.passkeys[i].transports]]

\* user.passkeys.find(pk => pk.id === id): the index of the first match, 0 if none.
\* The array only grows, so the index stands for the object reference.
FindPasskey(user, id) ==
  LET hits == {i \in 1..Len(user.passkeys) : user.passkeys[i].id = id}
  IN IF hits = {} THEN 0 ELSE CHOOSE i \in hits : \A j \in hits : i <= j

\* ------------------------------------------------- @simplewebauthn/server
\* generateRegistrationOptions / generateAuthenticationOptions: a challenge no
\* earlier call returned, and the credential list handed in.
generateRegistrationOptions(credentials) ==
  [challenge |-> Len(issued) + 1, credentials |-> credentials]

generateAuthenticationOptions(credentials) ==
  [challenge |-> Len(issued) + 1, credentials |-> credentials]

PublicKeyOf(id) == <<"publicKey", id>>

FailedCheck(response, expectedChallenge, expectedOrigin, expectedRPID) ==
  IF response.challenge # expectedChallenge THEN "Unexpected challenge"
  ELSE IF response.origin \notin expectedOrigin THEN "Unexpected origin"
  ELSE IF response.rpID # expectedRPID THEN "Unexpected RP ID"
  ELSE IF ~response.signed THEN "Invalid signature"
  ELSE ""

Refusals(message) ==
  { [threw |-> FALSE, message |-> "", verified |-> FALSE, info |-> << >>],
    [threw |-> TRUE, message |-> message, verified |-> FALSE, info |-> << >>] }

\* The outcomes of verifyRegistrationResponse({ response, expectedChallenge,
\* expectedOrigin, expectedRPID }); info is registrationInfo, present iff verified.
verifyRegistrationResponse(response, expectedChallenge, expectedOrigin, expectedRPID) ==
  LET failed == FailedCheck(response, expectedChallenge, expectedOrigin, expectedRPID)
  IN IF failed = ""
     THEN { [threw |-> FALSE, message |-> "", verified |-> TRUE,
             info |-> << [credential |-> [id |-> response.id,
                                          publicKey |-> PublicKeyOf(response.id),
                                          counter |-> response.counter,
                                          transports |-> <<"internal">>],
                          credentialDeviceType |-> "singleDevice",
                          credentialBackedUp |-> FALSE] >>] }
     ELSE Refusals(failed)

\* The outcomes of verifyAuthenticationResponse({ response, expectedChallenge,
\* expectedOrigin, expectedRPID, credential }); info is authenticationInfo.
\* The signature counter is compared as @simplewebauthn/server does, after
\* WebAuthn 7.2: the check applies when the asserted or the stored counter is
\* nonzero, and then refuses an asserted counter that is not above the stored one;
\* an authenticator without a counter asserts 0 against a stored 0 and passes.
verifyAuthenticationResponse(response, expectedChallenge, expectedOrigin, expectedRPID, credential) ==
  LET failed == FailedCheck(response, expectedChallenge, expectedOrigin, expectedRPID)
  IN IF failed # "" THEN Refusals(failed)
     ELSE IF /\ response.counter > 0 \/ credential.counter > 0
             /\ response.counter <= credential.counter
     THEN Refusals("Response counter value was lower than expected")
     ELSE { [threw |-> FALSE, message |-> "", verified |-> TRUE,
             info |-> << [newCounter |-> response.counter] >>] }

\* ---------------------------------------------------- POST /register/options
\* db.users.get instead of getOrCreateUser: an unknown user is not stored.
RegisterOptionsRun_NoCreate(username) ==
  IF username = NoUsername
  THEN Returns(Error("/register/options", username, "Falta username"))
  ELSE Outcome(NoResp, users, regOptions, authOptions,
               [Idle EXCEPT !.pc = "/register/options", !.username = username,
                            !.credentials = IF MapHas(users, username)
                                            THEN excludeCredentials(users[username])
                                            ELSE << >>])

\* Lines 50-63: up to `await generateRegistrationOptions(...)`.
RegisterOptionsRun(username) ==
  IF username = NoUsername
  THEN Returns(Error("/register/options", username, "Falta username"))
  ELSE LET created == getOrCreateUser(username)
       IN Outcome(NoResp, created, regOptions, authOptions,
                  [Idle EXCEPT !.pc = "/register/options", !.username = username,
                               !.credentials = excludeCredentials(created[username])])

\* Options already cached for the username are kept instead of overwritten.
RegisterOptionsSettle_KeepFirst(frame) ==
  LET options == generateRegistrationOptions(frame.credentials)
  IN Outcome(OptionsBody("/register/options", frame.username, options), users,
             IF MapHas(regOptions, frame.username) THEN regOptions
             ELSE MapSet(regOptions, frame.username, options),
             authOptions, Idle)

\* Lines 63-78: the options are generated, cached and returned.
RegisterOptionsSettle(frame) ==
  LET options == generateRegistrationOptions(frame.credentials)
  IN Outcome(OptionsBody("/register/options", frame.username, options),
             users, MapSet(regOptions, frame.username, options), authOptions, Idle)

\* ----------------------------------------------------- POST /register/verify
\* The user is fetched with getOrCreateUser instead of db.users.get.
RegisterVerifyRun_GetOrCreate(username, hasCredential) ==
  IF username = NoUsername \/ ~hasCredential
  THEN Returns(Error("/register/verify", username, "Faltan datos"))
  ELSE IF ~MapHas(regOptions, username)
  THEN Outcome(Error("/register/verify", username, "No hay options de registro activas"),
               getOrCreateUser(username), regOptions, authOptions, Idle)
  ELSE Outcome(NoResp, getOrCreateUser(username), regOptions, authOptions,
               [Idle EXCEPT !.pc = "/register/verify", !.username = username,
                            !.opts = regOptions[username]])

\* Lines 83-93: up to `await verifyRegistrationResponse(...)`.
RegisterVerifyRun(username, hasCredential) ==
  IF username = NoUsername \/ ~hasCredential
  THEN Returns(Error("/register/verify", username, "Faltan datos"))
  ELSE IF ~MapHas(users, username)
  THEN Returns(Error("/register/verify", username, "Usuario no existe"))
  ELSE IF ~MapHas(regOptions, username)
  THEN Returns(Error("/register/verify", username, "No hay options de registro activas"))
  ELSE Outcome(NoResp, users, regOptions, authOptions,
               [Idle EXCEPT !.pc = "/register/verify", !.username = username,
                            !.opts = regOptions[username]])

\* user.passkeys = [newPasskey] instead of user.passkeys.push(newPasskey).
PushPasskey_Replace(username, info) ==
  [users EXCEPT ![username].passkeys =
     << [id |-> info.credential.id,
         publicKey |-> info.credential.publicKey,
         counter |-> info.credential.counter,
         transports |-> info.credential.transports,
         deviceType |-> info.credentialDeviceType,
         backedUp |-> info.credentialBackedUp] >>]

\* Every user was created with the same passkeys array: a push shows in all.
PushPasskey_Shared(username, info) ==
  [u \in DOMAIN users |->
     [users[u] EXCEPT !.passkeys =
        Append(@, [id |-> info.credential.id,
                   publicKey |-> info.credential.publicKey,
                   counter |-> info.credential.counter,
                   transports |-> info.credential.transports,
                   deviceType |-> info.credentialDeviceType,
                   backedUp |-> info.credentialBackedUp])]]

\* unshift instead of push: the new passkey goes to the front.
PushPasskey_Front(username, info) ==
  [users EXCEPT ![username].passkeys =
     << [id |-> info.credential.id,
         publicKey |-> info.credential.publicKey,
         counter |-> info.credential.counter,
         transports |-> info.credential.transports,
         deviceType |-> info.credentialDeviceType,
         backedUp |-> info.credentialBackedUp] >> \o @]

\* Lines 101-113: the new passkey is pushed onto user.passkeys.
PushPasskey(username, info) ==
  [users EXCEPT ![username].passkeys =
     Append(@, [id |-> info.credential.id,
                publicKey |-> info.credential.publicKey,
                counter |-> info.credential.counter,
                transports |-> info.credential.transports,
                deviceType |-> info.credentialDeviceType,
                backedUp |-> info.credentialBackedUp])]

\* The finally block left out: the options stay cached.
RegisterFinally_Skipped(username) == regOptions

\* Line 124, the finally block: db.regOptions.delete(username).
RegisterFinally(username) == MapDelete(regOptions, username)

\* The catch block left out: when the verifier throws, the finally block runs and
\* the rejection leaves the handler with no response sent; the request hangs.
RegisterVerifySettle_NoCatch(frame, verification) ==
  IF verification.threw
  THEN Outcome(NoResp, users, RegisterFinally(frame.username), authOptions,
               [frame EXCEPT !.pc = "hung"])
  ELSE Outcome(VerifiedBody("/register/verify", frame.username, verification.verified),
               IF verification.verified /\ verification.info # << >>
               THEN PushPasskey(frame.username, verification.info[1])
               ELSE users,
               RegisterFinally(frame.username), authOptions, Idle)

\* Lines 93-125: the awaited verifier call settled with `verification`.
RegisterVerifySettle(frame, verification) ==
  IF verification.threw
  THEN Outcome(Error("/register/verify", frame.username, verification.message),
               users, RegisterFinally(frame.username), authOptions, Idle)
  ELSE Outcome(VerifiedBody("/register/verify", frame.username, verification.verified),
               IF verification.verified /\ verification.info # << >>
               THEN PushPasskey(frame.username, verification.info[1])
               ELSE users,
               RegisterFinally(frame.username), authOptions, Idle)

\* The settlements of the verifier call an invocation is suspended at, for a
\* given client response.
RegisterVerifications(frame, response) ==
  verifyRegistrationResponse(response, frame.opts.challenge, ORIGINS, rpID)

\* ... for whatever response the client sent.
RegisterSettlements(frame) ==
  UNION {RegisterVerifications(frame, response) : response \in ResponseShapes}

\* ------------------------------------------------------- POST /login/options
\* The `!user.passkeys.length` check left out.
LoginOptionsRun_NoPasskeyCheck(username) ==
  IF username = NoUsername
  THEN Returns(Error("/login/options", username, "Falta username"))
  ELSE IF ~MapHas(users, username)
  THEN Returns(Error("/login/options", username, "Usuario no existe"))
  ELSE Outcome(NoResp, users, regOptions, authOptions,
               [Idle EXCEPT !.pc = "/login/options", !.username = username,
                            !.credentials = allowCredentials(users[username])])

\* Lines 136-150: up to `await generateAuthenticationOptions(...)`.
LoginOptionsRun(username) ==
  IF username = NoUsername
  THEN Returns(Error("/login/options", username, "Falta username"))
  ELSE IF ~MapHas(users, username)
  THEN Returns(Error("/login/options", username, "Usuario no existe"))
  ELSE IF Len(users[username].passkeys) = 0
  THEN Returns(Error("/login/options", username, "Usuario sin passkeys"))
  ELSE Outcome(NoResp, users, regOptions, authOptions,
               [Idle EXCEPT !.pc = "/login/options", !.username = username,
                            !.credentials = allowCredentials(users[username])])

\* Lines 150-161: the options are generated, cached and returned, or the
\* generator threw.
LoginOptionsSettle(frame, threw) ==
  IF threw
  THEN Returns(Error("/login/options", frame.username, "generateAuthenticationOptions"))
  ELSE LET options == generateAuthenticationOptions(frame.credentials)
       IN Outcome(OptionsBody("/login/options", frame.username, options),
                  users, regOptions, MapSet(authOptions, frame.username, options), Idle)

\* -------------------------------------------------------- POST /login/verify
\* Line 203, the finally block: db.authOptions.delete(username).
LoginFinally(username) == MapDelete(authOptions, username)

\* The `if (!passkey) return` left out: reading passkey.id of undefined throws
\* inside the try block.
LoginVerifyLookup_NoCheck(username, credentialId) ==
  LET user == users[username]
      passkey == FindPasskey(user, credentialId)
  IN IF passkey = 0
     THEN Outcome(Error("/login/verify", username, "Cannot read properties of undefined"),
                  users, regOptions, LoginFinally(username), Idle)
     ELSE Outcome(NoResp, users, regOptions, authOptions,
                  [Idle EXCEPT !.pc = "/login/verify", !.username = username,
                               !.opts = authOptions[username],
                               !.passkey = passkey,
                               !.counter = user.passkeys[passkey].counter])

\* The lookup done before the try block: a missing passkey returns without the
\* finally block.
LoginVerifyLookup_OutsideTry(username, credentialId) ==
  LET user == users[username]
      passkey == FindPasskey(user, credentialId)
  IN IF passkey = 0
     THEN Returns(Error("/login/verify", username, "Credencial no encontrada"))
     ELSE Outcome(NoResp, users, regOptions, authOptions,
                  [Idle EXCEPT !.pc = "/login/verify", !.username = username,
                               !.opts = authOptions[username],
                               !.passkey = passkey,
                               !.counter = user.passkeys[passkey].counter])

\* Lines 175-191 (and 202-204 when the lookup fails): the passkey is looked up by
\* credential.id and handed, with the counter it holds now, to the verifier.
LoginVerifyLookup(username, credentialId) ==
  LET user == users[username]
      passkey == FindPasskey(user, credentialId)
  IN IF passkey = 0
     THEN Outcome(Error("/login/verify", username, "Credencial no encontrada"),
                  users, regOptions, LoginFinally(username), Idle)
     ELSE Outcome(NoResp, users, regOptions, authOptions,
                  [Idle EXCEPT !.pc = "/login/verify", !.username = username,
                               !.opts = authOptions[username],
                               !.passkey = passkey,
                               !.counter = user.passkeys[passkey].counter])

\* Lines 166-191: up to `await verifyAuthenticationResponse(...)`; credentialId is
\* credential.id of the body.
LoginVerifyRun(username, hasCredential, credentialId) ==
  IF username = NoUsername \/ ~hasCredential
  THEN Returns(Error("/login/verify", username, "Faltan datos"))
  ELSE IF ~MapHas(users, username)
  THEN Returns(Error("/login/verify", username, "Usuario no existe"))
  ELSE IF ~MapHas(authOptions, username)
  THEN Returns(Error("/login/verify", username, "No hay options de login activas"))
  ELSE LoginVerifyLookup(username, credentialId)

\* passkey.counter++ instead of passkey.counter = newCounter.
UpdateCounter_Increment(username, passkey, info) ==
  [users EXCEPT ![username].passkeys[passkey].counter = @ + 1]

\* Lines 193-196: passkey.counter = newCounter.
UpdateCounter(username, passkey, info) ==
  [users EXCEPT ![username].passkeys[passkey].counter = info.newCounter]

\* The finally block copied from /register/verify: it deletes from db.regOptions.
LoginVerifySettle_WrongTable(frame, verification) ==
  IF verification.threw
  THEN Outcome(Error("/login/verify", frame.username, verification.message),
               users, RegisterFinally(frame.username), authOptions, Idle)
  ELSE Outcome(VerifiedBody("/login/verify", frame.username, verification.verified),
               IF verification.verified /\ verification.info # << >>
               THEN UpdateCounter(frame.username, frame.passkey, verification.info[1])
               ELSE users,
               RegisterFinally(frame.username), authOptions, Idle)

\* The counter is written outside the `if (verification.verified ...)`: with no
\* authenticationInfo the write stores no counter (0 here).
LoginVerifySettle_Unguarded(frame, verification) ==
  IF verification.threw
  THEN Outcome(Error("/login/verify", frame.username, verification.message),
               users, regOptions, LoginFinally(frame.username), Idle)
  ELSE Outcome(VerifiedBody("/login/verify", frame.username, verification.verified),
               UpdateCounter(frame.username, frame.passkey,
                             IF verification.info # << >> THEN verification.info[1]
                             ELSE [newCounter |-> 0]),
               regOptions, LoginFinally(frame.username), Idle)

\* Lines 180-204: the awaited verifier call settled with `verification`.
LoginVerifySettle(frame, verification) ==
  IF verification.threw
  THEN Outcome(Error("/login/verify", frame.username, verification.message),
               users, regOptions, LoginFinally(frame.username), Idle)
  ELSE Outcome(VerifiedBody("/login/verify", frame.username, verification.verified),
               IF verification.verified /\ verification.info # << >>
               THEN UpdateCounter(frame.username, frame.passkey, verification.info[1])
               ELSE users,
               regOptions, LoginFinally(frame.username), Idle)

LoginVerifications(frame, response) ==
  verifyAuthenticationResponse(response, frame.opts.challenge, ORIGINS, rpID,
                               [counter |-> frame.counter])

\* The assertions a client can send for the credential the call looked up.
Assertions(frame) ==
  {r \in ResponseShapes : r.id = users[frame.username].passkeys[frame.passkey].id}

LoginSettlements(frame) ==
  UNION {LoginVerifications(frame, response) : response \in Assertions(frame)}

\* ------------------------------------------------------------------ actions
Apply(p, o) ==
  /\ users' = o.users
  /\ regOptions' = o.regOptions
  /\ authOptions' = o.authOptions
  /\ req' = [req EXCEPT ![p] = o.frame]

\* A challenge can still be generated within the bound.
CanIssue ==
  Len(issued) + Cardinality(Awaiting("/register/options") \cup Awaiting("/login/options"))
    < MaxChallenges

\* Room for one more passkey within the bound.
RECURSIVE Stored(_)
Stored(names) ==
  IF names = {} THEN 0
  ELSE LET u == CHOOSE n \in names : TRUE
       IN Len(users[u].passkeys) + Stored(names \ {u})

CanRegister ==
  Stored(DOMAIN users) + Cardinality(Awaiting("/register/verify")) < MaxPasskeys

RegisterOptions(p, username) ==
  /\ req[p].pc = "idle"
  /\ LET o == RegisterOptionsRun(username)
     IN /\ o.frame # Idle => CanIssue
        /\ Apply(p, o)
  /\ UNCHANGED issued

RegisterOptionsResolve(p) ==
  /\ req[p].pc = "/register/options"
  /\ Apply(p, RegisterOptionsSettle(req[p]))
  /\ issued' = Append(issued, IssuedEntry(req[p].username, "registration"))

RegisterVerify(p, username, hasCredential) ==
  /\ req[p].pc = "idle"
  /\ LET o == RegisterVerifyRun(username, hasCredential)
     IN /\ o.frame # Idle => CanRegister
        /\ Apply(p, o)
        /\ issued' = IF o.frame # Idle THEN RecordUse(o.frame.opts.challenge) ELSE issued

RegisterVerifyResolve(p) ==
  /\ req[p].pc = "/register/verify"
  /\ \E verification \in RegisterSettlements(req[p]) :
       /\ ~verification.threw
       /\ Apply(p, RegisterVerifySettle(req[p], verification))
  /\ UNCHANGED issued

RegisterVerifyReject(p) ==
  /\ req[p].pc = "/register/verify"
  /\ \E verification \in RegisterSettlements(req[p]) :
       /\ verification.threw
       /\ Apply(p, RegisterVerifySettle(req[p], verification))
  /\ UNCHANGED issued

LoginOptions(p, username) ==
  /\ req[p].pc = "idle"
  /\ LET o == LoginOptionsRun(username)
     IN /\ o.frame # Idle => CanIssue
        /\ Apply(p, o)
  /\ UNCHANGED issued

LoginOptionsResolve(p) ==
  /\ req[p].pc = "/login/options"
  /\ Apply(p, LoginOptionsSettle(req[p], FALSE))
  /\ issued' = Append(issued, IssuedEntry(req[p].username, "authentication"))

LoginOptionsReject(p) ==
  /\ req[p].pc = "/login/options"
  /\ Apply(p, LoginOptionsSettle(req[p], TRUE))
  /\ UNCHANGED issued

LoginVerify(p, username, hasCredential, credentialId) ==
  /\ req[p].pc = "idle"
  /\ LET o == LoginVerifyRun(username, hasCredential, credentialId)
     IN /\ Apply(p, o)
        /\ issued' = IF o.frame # Idle THEN RecordUse(o.frame.opts.challenge)
                      ELSE IF o.authOptions # authOptions
                      THEN RecordTake(authOptions[username].challenge)
                      ELSE issued

LoginVerifyResolve(p) ==
  /\ req[p].pc = "/login/verify"
  /\ \E verification \in LoginSettlements(req[p]) :
       /\ ~verification.threw
       /\ Apply(p, LoginVerifySettle(req[p], verification))
  /\ UNCHANGED issued

LoginVerifyReject(p) ==
  /\ req[p].pc = "/login/verify"
  /\ \E verification \in LoginSettlements(req[p]) :
       /\ verification.threw
       /\ Apply(p, LoginVerifySettle(req[p], verification))
  /\ UNCHANGED issued

\* ------------------------------------------------------------ specifications
\* A request that names one of `names` arrives and its handler runs to its first
\* await or return.
ArriveAs(p, names) ==
  \/ \E username \in names : RegisterOptions(p, username)
  \/ \E username \in names, hasCredential \in BOOLEAN :
       RegisterVerify(p, username, hasCredential)
  \/ \E username \in names : LoginOptions(p, username)
  \/ \E username \in names, hasCredential \in BOOLEAN, credentialId \in CredIds :
       LoginVerify(p, username, hasCredential, credentialId)

Arrive(p) == ArriveAs(p, Usernames \cup {NoUsername})

\* An awaited promise settles and the handler runs to its end.
Settle(p) ==
  \/ RegisterOptionsResolve(p)
  \/ RegisterVerifyResolve(p)
  \/ RegisterVerifyReject(p)
  \/ LoginOptionsResolve(p)
  \/ LoginOptionsReject(p)
  \/ LoginVerifyResolve(p)
  \/ LoginVerifyReject(p)

Next == \E p \in Procs : Arrive(p) \/ Settle(p)

Spec == Init /\ [][Next]_vars

\* Overlapping requests that all name the same username (or none).  The event loop
\* runs the continuation of every promise that has settled, and the awaited library
\* calls settle.
OneUser == CHOOSE username \in Usernames : TRUE

NextOneUser == \E p \in Procs : ArriveAs(p, {OneUser, NoUsername}) \/ Settle(p)

FairSpec == Init /\ [][NextOneUser]_vars /\ \A p \in Procs : WF_vars(Settle(p))

\* Requests handled one at a time: a request arrives only when no handler is
\* suspended.
AllIdle == \A p \in Procs : req[p].pc = "idle"

NextSeq == \E p \in Procs : (AllIdle /\ Arrive(p)) \/ Settle(p)

SpecSeq == Init /\ [][NextSeq]_vars

\* ================================================================== claims
Kinds == {"registration", "authentication"}

Pending(kind, username) ==
  IF kind = "registration" THEN MapHas(regOptions, username)
  ELSE MapHas(authOptions, username)

\* The latest challenge generated for a username and a ceremony, 0 if none.
Latest(kind, username) ==
  LET cs == {c \in 1..Len(issued) :
               issued[c].username = username /\ issued[c].kind = kind}
  IN IF cs = {} THEN 0 ELSE CHOOSE c \in cs : \A d \in cs : d <= c

\* A verify request that carries a credential, run up to its await or return.
VerifyRun(kind, username, credentialId) ==
  IF kind = "registration" THEN RegisterVerifyRun(username, TRUE)
  ELSE LoginVerifyRun(username, TRUE, credentialId)

NoPendingChallenge(kind, username) ==
  IF kind = "registration"
  THEN Error("/register/verify", username, "No hay options de registro activas")
  ELSE Error("/login/verify", username, "No hay options de login activas")

\* C1 (SpecSeq): with requests handled one at a time, once a verify call has found
\* the pending challenge of a username and ceremony and has returned (verified or
\* not, or with the 400 of a thrown error), and no options call has cached a new
\* one since, no challenge of that kind is pending for the username and a further
\* verify call is answered 400 "no active options".
C1_NoReplaySequential ==
  AllIdle =>
    \A username \in Usernames, kind \in Kinds :
      LET c == Latest(kind, username)
      IN (c # 0 /\ issued[c].taken > 0) =>
           /\ ~Pending(kind, username)
           /\ \A credentialId \in CredIds :
                VerifyRun(kind, username, credentialId)
                  = Returns(NoPendingChallenge(kind, username))

\* A username whose latest registration and authentication challenges were both
\* found by verify calls that have returned.
C1_Witness ==
  /\ AllIdle
  /\ \E username \in Usernames :
       \A kind \in Kinds :
         /\ Latest(kind, username) # 0
         /\ issued[Latest(kind, username)].taken > 0
         /\ ~Pending(kind, username)

\* C2 (Spec): every challenge an options call generated is handed to a verifier as
\* expectedChallenge by at most one verify call.
C2_ChallengeUsedOnce ==
  \A c \in 1..Len(issued) : issued[c].uses <= 1

\* C3 (Spec): no step lowers the signature counter of a stored credential.
C3_CounterNeverDecreases ==
  [][\A username \in DOMAIN users :
       \A i \in 1..Len(users[username].passkeys) :
         users'[username].passkeys[i].counter >= users[username].passkeys[i].counter]_vars

UnknownUser(kind, username) ==
  IF kind = "registration" THEN Error("/register/verify", username, "Usuario no existe")
  ELSE Error("/login/verify", username, "Usuario no existe")

\* The registration challenges of a username, and two of them generated one after
\* the other.
RegistrationChallenges(username) ==
  {c \in 1..Len(issued) :
     issued[c].username = username /\ issued[c].kind = "registration"}

Consecutive(username, c1, c2) ==
  /\ c1 \in RegistrationChallenges(username)
  /\ c2 \in RegistrationChallenges(username)
  /\ c1 < c2
  /\ \A c \in RegistrationChallenges(username) : c <= c1 \/ c >= c2

\* C4 (SpecSeq): after two /register/options calls for a username with no
\* /register/verify between or after them, the two challenges differ, the pending
\* registration challenge is the second, a /register/verify whose response is bound
\* to the first challenge is not verified and appends no credential, and one bound
\* to the second can be verified.
C4_SingleActiveChallenge ==
  AllIdle =>
    \A username \in Usernames :
      \A c1, c2 \in RegistrationChallenges(username) :
        ( /\ Consecutive(username, c1, c2)
          /\ c2 = Latest("registration", username)
          /\ issued[c1].taken = 0
          /\ issued[c2].taken = 0 ) =>
          /\ c1 # c2
          /\ MapHas(regOptions, username)
          /\ regOptions[username].challenge = c2
          /\ LET call == RegisterVerifyRun(username, TRUE)
             IN /\ call.frame.pc = "/register/verify"
                /\ \A response \in ResponseShapes :
                     response.challenge = c1 =>
                       \A v \in RegisterVerifications(call.frame, response) :
                         LET o == RegisterVerifySettle(call.frame, v)
                         IN o.resp.verified # "true" /\ o.users = users
                /\ \E response \in ResponseShapes :
                     /\ response.challenge = c2
                     /\ \E v \in RegisterVerifications(call.frame, response) :
                          RegisterVerifySettle(call.frame, v).resp.verified = "true"

\* The second of two such challenges was verified and gave the user a passkey.
C4_Witness ==
  /\ AllIdle
  /\ \E username \in Usernames :
       \E c1, c2 \in RegistrationChallenges(username) :
         /\ Consecutive(username, c1, c2)
         /\ issued[c1].taken = 0
         /\ issued[c2].uses = 1
         /\ Len(users[username].passkeys) = 1

\* An options call of that kind for the username has run, or is running.
Begun(kind, username) ==
  \/ Latest(kind, username) # 0
  \/ \E p \in Procs :
       /\ req[p].username = username
       /\ req[p].pc = IF kind = "registration" THEN "/register/options"
                      ELSE "/login/options"

\* C5 as claimed (Spec): a verify call for a username with no preceding options
\* call of that kind is answered 400 "no active options" and changes no table.
C5_FinishWithoutBegin ==
  \A username \in Usernames, kind \in Kinds, credentialId \in CredIds :
    ~Begun(kind, username) =>
      VerifyRun(kind, username, credentialId)
        = Returns(NoPendingChallenge(kind, username))

\* C5 as amended (Spec): such a call is answered 400 and changes no table; the
\* error is "unknown user" when the username is not in db.users and "no active
\* options" when it is.
C5_FinishWithoutBeginRefused ==
  \A username \in Usernames, kind \in Kinds, credentialId \in CredIds :
    ~Begun(kind, username) =>
      VerifyRun(kind, username, credentialId)
        = Returns(IF MapHas(users, username)
                  THEN NoPendingChallenge(kind, username)
                  ELSE UnknownUser(kind, username))

\* A registered user who never asked for login options, and a username that was
\* never registered.
C5_Witness ==
  /\ \E username \in Usernames, credentialId \in CredIds :
       /\ MapHas(users, username)
       /\ ~Begun("authentication", username)
       /\ LoginVerifyRun(username, TRUE, credentialId)
            = Returns(NoPendingChallenge("authentication", username))
  /\ \E username \in Usernames :
       /\ ~MapHas(users, username)
       /\ RegisterVerifyRun(username, TRUE)
            = Returns(UnknownUser("registration", username))

\* C6 (Spec): a /register/verify call that answers verified:true leaves the user's
\* passkeys one longer, the earlier ones unchanged and in place, and no registration
\* options cached for the username.
C6_RegistrationAppendsOne ==
  \A p \in Awaiting("/register/verify") :
    \A v \in RegisterSettlements(req[p]) :
      LET username == req[p].username
          before == users[username].passkeys
          o == RegisterVerifySettle(req[p], v)
      IN o.resp.verified = "true" =>
           /\ o.resp.status = 200
           /\ Len(o.users[username].passkeys) = Len(before) + 1
           /\ SubSeq(o.users[username].passkeys, 1, Len(before)) = before
           /\ ~MapHas(o.regOptions, username)

\* A second passkey was appended behind a different first one.
C6_Witness ==
  \E username \in DOMAIN users :
    /\ Len(users[username].passkeys) = 2
    /\ users[username].passkeys[1] # users[username].passkeys[2]
    /\ ~MapHas(regOptions, username)

\* C7 (Spec): a verify call that does not answer verified:true leaves db.users as it
\* was, in the run up to its await or early return and in the run after the verifier
\* returned verified:false or threw.
C7_FailedVerifyKeepsStore ==
  /\ \A username \in Usernames \cup {NoUsername}, hasCredential \in BOOLEAN,
        credentialId \in CredIds :
       /\ RegisterVerifyRun(username, hasCredential).users = users
       /\ LoginVerifyRun(username, hasCredential, credentialId).users = users
  /\ \A p \in Awaiting("/register/verify") :
       \A v \in RegisterSettlements(req[p]) :
         LET o == RegisterVerifySettle(req[p], v)
         IN o.resp.verified # "true" => o.users = users
  /\ \A p \in Awaiting("/login/verify") :
       \A v \in LoginSettlements(req[p]) :
         LET o == LoginVerifySettle(req[p], v)
         IN o.resp.verified # "true" => o.users = users

\* A /login/verify call on a passkey whose counter is above 0 receives an assertion
\* from an origin outside ORIGINS and is refused.
C7_Witness ==
  \E p \in Awaiting("/login/verify") :
    /\ users[req[p].username].passkeys[req[p].passkey].counter > 0
    /\ \E response \in Assertions(req[p]) :
         /\ response.origin \notin ORIGINS
         /\ \E v \in LoginVerifications(req[p], response) :
              LET o == LoginVerifySettle(req[p], v)
              IN o.resp.verified # "true" /\ o.users = users

Evicted(kind, username, o) ==
  IF kind = "registration" THEN ~MapHas(o.regOptions, username)
  ELSE ~MapHas(o.authOptions, username)

\* Every run that ends a verify call naming a username leaves the challenge of its
\* kind evicted: the early returns of the first run, for calls whose credential
\* field is present or absent as hasCredentials allows, and every settlement of the
\* awaited verifier call.
EvictedAtReturn(hasCredentials) ==
  /\ \A username \in Usernames, hasCredential \in hasCredentials,
        credentialId \in CredIds, kind \in Kinds :
       LET o == IF kind = "registration"
                THEN RegisterVerifyRun(username, hasCredential)
                ELSE LoginVerifyRun(username, hasCredential, credentialId)
       IN o.frame = Idle => Evicted(kind, username, o)
  /\ \A p \in Awaiting("/register/verify") :
       \A v \in RegisterSettlements(req[p]) :
         Evicted("registration", req[p].username, RegisterVerifySettle(req[p], v))
  /\ \A p \in Awaiting("/login/verify") :
       \A v \in LoginSettlements(req[p]) :
         Evicted("authentication", req[p].username, LoginVerifySettle(req[p], v))

\* C9 as claimed (Spec): every verify call that names a username, whatever branch it
\* takes and whether or not it carries a credential, leaves no pending challenge of
\* its kind for that username when it returns.
C9_EvictionUnconditional == EvictedAtReturn(BOOLEAN)

\* C9 as amended (Spec): every verify call that names a username and carries a
\* credential leaves no pending challenge of its kind for that username when it
\* returns; a call without the credential field is answered 400 "missing data" and
\* leaves every table, the pending challenge included, as it was.
C9_EvictionWhenCredentialSent ==
  /\ EvictedAtReturn({TRUE})
  /\ \A username \in Usernames, credentialId \in CredIds :
       /\ RegisterVerifyRun(username, FALSE)
            = Returns(Error("/register/verify", username, "Faltan datos"))
       /\ LoginVerifyRun(username, FALSE, credentialId)
            = Returns(Error("/login/verify", username, "Faltan datos"))

\* With a registration and an authentication challenge pending for a username, a
\* /register/verify without credential leaves the first in place and a
\* /login/verify naming a credential id not on file evicts the second.
C9_Witness ==
  \E username \in Usernames, credentialId \in CredIds :
    /\ MapHas(regOptions, username)
    /\ MapHas(authOptions, username)
    /\ MapHas(RegisterVerifyRun(username, FALSE).regOptions, username)
    /\ LET o == LoginVerifyRun(username, TRUE, credentialId)
       IN /\ o.resp = Error("/login/verify", username, "Credencial no encontrada")
          /\ ~MapHas(o.authOptions, username)

\* C10 (Spec): a /login/options call for a username that is not in db.users, or
\* that is there with no passkeys, is answered 400 and leaves db.authOptions (and
\* every other table) as it was.
C10_LoginOptionsRefused ==
  \A username \in Usernames :
    (~MapHas(users, username) \/ Len(users[username].passkeys) = 0) =>
      LET o == LoginOptionsRun(username)
      IN /\ o.resp.status = 400
         /\ o.authOptions = authOptions
         /\ o = Returns(o.resp)

\* One username is unknown and another is registered without passkeys; each is
\* refused with its own error.
C10_Witness ==
  \E unknown, empty \in Usernames :
    /\ ~MapHas(users, unknown)
    /\ LoginOptionsRun(unknown)
         = Returns(Error("/login/options", unknown, "Usuario no existe"))
    /\ MapHas(users, empty)
    /\ Len(users[empty].passkeys) = 0
    /\ LoginOptionsRun(empty)
         = Returns(Error("/login/options", empty, "Usuario sin passkeys"))

\* The ids of a list of passkeys or of credential descriptors, in order.
IdsOf(list) == [i \in 1..Len(list) |-> list[i].id]

\* C11 (Spec): no user's passkeys hold the same credential id twice.
C11_UniqueCredentialIds ==
  \A username \in DOMAIN users :
    \A i, j \in 1..Len(users[username].passkeys) :
      users[username].passkeys[i].id = users[username].passkeys[j].id => i = j

\* C12 (Spec): the list a /register/options or /login/options call computes before
\* its await holds exactly the ids of the user's passkeys at that moment, in order
\* (none for a user the call creates), and the options the call caches and returns
\* carry that list.
C12_OptionsListStoredCredentials ==
  /\ \A username \in Usernames :
       LET o == RegisterOptionsRun(username)
       IN /\ IdsOf(o.frame.credentials) = IdsOf(o.users[username].passkeys)
          /\ ~MapHas(users, username) => o.frame.credentials = << >>
          /\ MapHas(users, username) =>
               IdsOf(o.frame.credentials) = IdsOf(users[username].passkeys)
  /\ \A username \in Usernames :
       LET o == LoginOptionsRun(username)
       IN o.frame # Idle =>
            IdsOf(o.frame.credentials) = IdsOf(users[username].passkeys)
  /\ \A p \in Awaiting("/register/options") :
       LET o == RegisterOptionsSettle(req[p])
       IN /\ o.resp.options.credentials = req[p].credentials
          /\ o.regOptions[req[p].username] = o.resp.options
  /\ \A p \in Awaiting("/login/options") :
       LET o == LoginOptionsSettle(req[p], FALSE)
       IN /\ o.resp.options.credentials = req[p].credentials
          /\ o.authOptions[req[p].username] = o.resp.options

\* A user with two different passkeys: both option calls list the two ids in the
\* order they were registered.
C12_Witness ==
  \E username \in DOMAIN users :
    /\ Len(users[username].passkeys) = 2
    /\ users[username].passkeys[1].id # users[username].passkeys[2].id
    /\ IdsOf(RegisterOptionsRun(username).frame.credentials)
         = IdsOf(users[username].passkeys)
    /\ IdsOf(LoginOptionsRun(username).frame.credentials)
         = IdsOf(users[username].passkeys)

\* C13 (Spec): a /login/verify call for a username with a pending authentication
\* challenge, naming a credential id that none of that user's passkeys has, is
\* answered 400 "credential not found" without suspending at the verifier, leaves
\* db.users and db.regOptions as they were and removes the username's entry of
\* db.authOptions.
C13_CredentialNotFound ==
  \A username \in Usernames, credentialId \in CredIds :
    ( /\ MapHas(users, username)
      /\ MapHas(authOptions, username)
      /\ \A i \in 1..Len(users[username].passkeys) :
           users[username].passkeys[i].id # credentialId ) =>
      LoginVerifyRun(username, TRUE, credentialId)
        = Outcome(Error("/login/verify", username, "Credencial no encontrada"),
                  users, regOptions, MapDelete(authOptions, username), Idle)

\* A username with a pending authentication challenge sends the id of a passkey
\* that is stored for another user only.
C13_Witness ==
  \E username, other \in DOMAIN users, credentialId \in CredIds :
    /\ username # other
    /\ MapHas(authOptions, username)
    /\ FindPasskey(users[username], credentialId) = 0
    /\ FindPasskey(users[other], credentialId) # 0
    /\ LoginVerifyRun(username, TRUE, credentialId).resp.error = "Credencial no encontrada"

\* A stored passkey without its signature counter.
Fixed(passkey) == [passkey EXCEPT !.counter = 0]

\* C14 (Spec): no step removes a user from db.users, removes a passkey from a user
\* or moves it to another position, or changes a field of a stored passkey other
\* than its counter.
C14_StoreOnlyGrows ==
  [][\A username \in DOMAIN users :
       /\ username \in DOMAIN users'
       /\ users'[username].username = users[username].username
       /\ Len(users'[username].passkeys) >= Len(users[username].passkeys)
       /\ \A i \in 1..Len(users[username].passkeys) :
            Fixed(users'[username].passkeys[i]) = Fixed(users[username].passkeys[i])]_vars

\* A user with two passkeys, the first with a counter above 0, after a /login/verify
\* call handed one of the user's challenges to the verifier and returned.
C14_Witness ==
  /\ AllIdle
  /\ \E username \in DOMAIN users :
       /\ Len(users[username].passkeys) = 2
       /\ users[username].passkeys[1].counter > 0
       /\ \E c \in 1..Len(issued) :
            /\ issued[c].username = username
            /\ issued[c].kind = "authentication"
            /\ issued[c].uses > 0

\* C15 (Spec): the run of /register/options up to its await adds a user without
\* passkeys when the username is not in db.users and leaves db.users as it is when
\* the username is there, and the run after the await leaves db.users as it is; so
\* a second and any later call leaves the table the first call left.
C15_GetOrCreateIdempotent ==
  /\ \A username \in Usernames :
       LET o == RegisterOptionsRun(username)
       IN /\ MapHas(users, username) => o.users = users
          /\ ~MapHas(users, username) =>
               o.users = MapSet(users, username,
                                [username |-> username, passkeys |-> << >>])
  /\ \A p \in Awaiting("/register/options") :
       /\ MapHas(users, req[p].username)
       /\ RegisterOptionsSettle(req[p]).users = users
       /\ RegisterOptionsRun(req[p].username).users = users

\* A user who registered a passkey asks for registration options again while an
\* earlier /register/options call for the same username is still awaiting.
C15_Witness ==
  \E p \in Awaiting("/register/options") :
    /\ Len(users[req[p].username].passkeys) > 0
    /\ RegisterOptionsRun(req[p].username).users = users

\* C16 (Spec): when the challenge cached for the username of a suspended verify call
\* is no longer the one the call read (an options call replaced it during the
\* await), the call's completion leaves the cached challenge in place.
C16_DeletesWhatItRead ==
  /\ \A p \in Awaiting("/register/verify") :
       ( /\ MapHas(regOptions, req[p].username)
         /\ regOptions[req[p].username].challenge # req[p].opts.challenge ) =>
         \A v \in RegisterSettlements(req[p]) :
           RegisterVerifySettle(req[p], v).regOptions = regOptions
  /\ \A p \in Awaiting("/login/verify") :
       ( /\ MapHas(authOptions, req[p].username)
         /\ authOptions[req[p].username].challenge # req[p].opts.challenge ) =>
         \A v \in LoginSettlements(req[p]) :
           LoginVerifySettle(req[p], v).authOptions = authOptions

\* Every run a handler can make in the current state: the route and username of the
\* request and the outcome of the run, for the runs up to the await or early return
\* of an arriving request and for the runs after the await of a suspended one.
Run(route, username, o) == [route |-> route, username |-> username, o |-> o]

ArrivalRuns ==
  UNION { {Run("/register/options", username, RegisterOptionsRun(username)),
           Run("/login/options", username, LoginOptionsRun(username))}
            \cup {Run("/register/verify", username, RegisterVerifyRun(username, h)) :
                    h \in BOOLEAN}
            \cup {Run("/login/verify", username, LoginVerifyRun(username, h, id)) :
                    h \in BOOLEAN, id \in CredIds} :
          username \in Usernames \cup {NoUsername} }

SettleRuns ==
  UNION { IF req[p].pc = "/register/options"
          THEN {Run(req[p].pc, req[p].username, RegisterOptionsSettle(req[p]))}
          ELSE IF req[p].pc = "/register/verify"
          THEN {Run(req[p].pc, req[p].username, RegisterVerifySettle(req[p], v)) :
                  v \in RegisterSettlements(req[p])}
          ELSE IF req[p].pc = "/login/options"
          THEN {Run(req[p].pc, req[p].username, LoginOptionsSettle(req[p], threw)) :
                  threw \in BOOLEAN}
          ELSE IF req[p].pc = "/login/verify"
          THEN {Run(req[p].pc, req[p].username, LoginVerifySettle(req[p], v)) :
                  v \in LoginSettlements(req[p])}
          ELSE {} :
          p \in Procs }

HandlerRuns == ArrivalRuns \cup SettleRuns

\* C17 (Spec): no run of /register/options or /register/verify changes
\* db.authOptions, and no run of /login/options or /login/verify changes
\* db.regOptions.
C17_KindsKeptApart ==
  \A r \in HandlerRuns :
    /\ r.route \in {"/register/options", "/register/verify"} =>
         r.o.authOptions = authOptions
    /\ r.route \in {"/login/options", "/login/verify"} =>
         r.o.regOptions = regOptions

\* A username has a registration and an authentication challenge pending; its
\* /login/verify call completes and its /register/verify call suspends or
\* completes, each leaving the other ceremony's challenge cached.
C17_Witness ==
  \E username \in Usernames :
    /\ MapHas(regOptions, username)
    /\ MapHas(authOptions, username)
    /\ \E r \in SettleRuns :
         /\ r.route = "/login/verify"
         /\ r.username = username
         /\ ~MapHas(r.o.authOptions, username)
         /\ MapHas(r.o.regOptions, username)
    /\ MapHas(RegisterVerifyRun(username, TRUE).authOptions, username)

\* The record, the pending registration options and the pending authentication
\* options of a username are in the tables of o what they are now.
Untouched(username, o) ==
  /\ MapHas(o.users, username) <=> MapHas(users, username)
  /\ MapHas(users, username) => o.users[username] = users[username]
  /\ MapHas(o.regOptions, username) <=> MapHas(regOptions, username)
  /\ MapHas(regOptions, username) => o.regOptions[username] = regOptions[username]
  /\ MapHas(o.authOptions, username) <=> MapHas(authOptions, username)
  /\ MapHas(authOptions, username) => o.authOptions[username] = authOptions[username]

\* C18 (Spec): every run of a handler for a request with username u leaves the
\* user record with its passkeys, the pending registration options and the pending
\* authentication options of every other username as they were.
C18_OtherUsersUntouched ==
  \A r \in HandlerRuns :
    \A other \in Usernames \ {r.username} : Untouched(other, r.o)

\* While another user has a passkey and pending options of both kinds, a
\* /register/verify call is verified and appends a passkey to its own user only.
C18_Witness ==
  \E r \in SettleRuns, other \in Usernames :
    /\ r.route = "/register/verify"
    /\ r.o.resp.verified = "true"
    /\ other # r.username
    /\ MapHas(users, other)
    /\ Len(users[other].passkeys) > 0
    /\ MapHas(authOptions, other)
    /\ r.o.users[r.username] # users[r.username]
    /\ Untouched(other, r.o)

\* C19 (Spec): every username with cached registration options is in db.users, and
\* every username with cached authentication options is in db.users with at least
\* one passkey.
C19_PendingImpliesUser ==
  /\ \A username \in DOMAIN regOptions : MapHas(users, username)
  /\ \A username \in DOMAIN authOptions :
       /\ MapHas(users, username)
       /\ Len(users[username].passkeys) >= 1

\* One user without passkeys has registration options cached while another, with a
\* passkey, has authentication options cached.
C19_Witness ==
  \E new, old \in DOMAIN users :
    /\ MapHas(regOptions, new)
    /\ Len(users[new].passkeys) = 0
    /\ MapHas(authOptions, old)
    /\ Len(users[old].passkeys) = 1

\* C20 (FairSpec): every verify call suspended at its verifier call (it found a
\* pending challenge) eventually returns, and the step in which it returns leaves
\* no challenge of its kind cached for its username.
C20_VerifyReturns ==
  /\ \A p \in Procs :
       (req[p].pc \in {"/register/verify", "/login/verify"}) ~> (req[p].pc = "idle")
  /\ [][\A p \in Procs :
          /\ (req[p].pc = "/register/verify" /\ req'[p].pc # req[p].pc) =>
               req'[p].pc = "idle" /\ ~MapHas(regOptions', req[p].username)
          /\ (req[p].pc = "/login/verify" /\ req'[p].pc # req[p].pc) =>
               req'[p].pc = "idle" /\ ~MapHas(authOptions', req[p].username)]_vars

\* Both kinds of verify call have handed a challenge of one username to the
\* verifier and have returned; nothing is cached for the username.
C20_Witness ==
  /\ AllIdle
  /\ \E username \in Usernames :
       /\ ~MapHas(regOptions, username)
       /\ ~MapHas(authOptions, username)
       /\ \A kind \in Kinds :
            \E c \in 1..Len(issued) :
              /\ issued[c].username = username
              /\ issued[c].kind = kind
              /\ issued[c].uses > 0

====
